---- MODULE Spec2Model ----
(***************************************************************************)
(* Recommendation service: two circuit breakers (userProfile, content)     *)
(* guarding mocked downstream calls, and the GET /recommendations handler  *)
(* that composes the two results with a breaker-state based fallback.      *)
(*                                                                         *)
(* Scheduling: Node's single-threaded event loop.  A handler runs          *)
(* atomically until it awaits something that settles in a later macrotask; *)
(* here that is only a call whose mock sleeps (behaviour 'slow'), which    *)
(* suspends the request until the earlier of the call's completion and     *)
(* the breaker's timeout timer.  Calls that settle in a microtask          *)
(* ('normal', 'fail') continue within the same atomic step.                *)
(***************************************************************************)
EXTENDS Integers, Sequences, FiniteSets, Bags, TLC

VARIABLES
  breakers,       \* the two CircuitBreaker objects
  serviceStates,  \* injected behaviour of each dependency
  now,            \* Date.now()
  reqs,           \* the bag of suspended GET /recommendations handlers
  started,        \* number of GET /recommendations requests received
  invocations,    \* per breaker, how often the wrapped call was invoked
  everOpen,       \* the breakers that have been OPEN at some time
  last,           \* the most recent answer to GET /recommendations
  outcomes,       \* per breaker, the outcomes of its calls as they completed
  simulated,      \* the most recent POST /simulate request and its answer
  running         \* the bag of wrapped calls still running after their timeout

vars == <<breakers, serviceStates, now, reqs, started, invocations, everOpen, last,
          outcomes, simulated, running>>

------------------------------------------------------------------------------
(* Bounds of the model *)

MaxRequests == 7        \* requests per run, one dependency disturbed
MaxSeqRequests == 11    \* requests per run, no slow calls
MaxBothRequests == 6    \* requests per run, both dependencies disturbed
MaxNow == 33000         \* the clock stops here
MaxPending == 2         \* handlers suspended at the same time
MaxSimRequests == 2     \* requests per run, every kind of POST /simulate
MaxLiveRequests == 9   \* requests per run, under fairness

UserIds == {"42"}

------------------------------------------------------------------------------
(* Configuration of the two breakers (identical option objects) *)

timeout == 2000
failureThreshold == 5
failureRateThreshold == 50
failureRateWindow == 10
openDuration == 30000
halfOpenTrials == 3

slowDelay == 3000

BreakerNames == {"userProfile", "content"}
Services == {"user-profile", "content"}
Behaviors == {"normal", "slow", "fail"}

------------------------------------------------------------------------------
(* CircuitBreaker *)

NewBreaker(name) ==
  [ name |-> name,
    state |-> "CLOSED",
    failureCount |-> 0,
    successCount |-> 0,
    lastFailureTime |-> 0,     \* null; `Date.now() - null` is `Date.now() - 0`
    trialCount |-> 0,
    requestHistory |-> <<>> ]

OpenError(cb) == "Circuit breaker " \o cb.name \o " is OPEN"
TimeoutError == "Timeout"
ServiceError == "Service Error - 500"

\* Variant: the oldest entry is never evicted.
PushHistory_noShift(h, x) == Append(h, x)

\* Variant: the newest entry is dropped from a full history (pop for shift).
PushHistory_evictNewest(h, x) ==
  LET h1 == Append(h, x)
  IN IF Len(h1) > failureRateWindow THEN SubSeq(h1, 1, failureRateWindow) ELSE h1

\* requestHistory.push(x); if (length > failureRateWindow) shift()
PushHistory(h, x) ==
  LET h1 == Append(h, x)
  IN IF Len(h1) > failureRateWindow THEN Tail(h1) ELSE h1

RECURSIVE CountFailures(_)
CountFailures(h) ==
  IF h = <<>> THEN 0
  ELSE (IF Head(h) THEN 0 ELSE 1) + CountFailures(Tail(h))

\* failureRate >= failureRateThreshold, with
\* failureRate = length > 0 ? failures / length * 100 : 0
RateAtLeastThreshold(h) ==
  Len(h) > 0 /\ CountFailures(h) * 100 >= failureRateThreshold * Len(h)

\* Variant: a rejection restarts the cooldown.
ExecuteEnter_rejectionRestartsCooldown(cb, t) ==
  IF cb.state = "OPEN"
  THEN IF t - cb.lastFailureTime > openDuration
       THEN [ admitted |-> TRUE,
              cb |-> [cb EXCEPT !.state = "HALF_OPEN", !.trialCount = 0] ]
       ELSE [ admitted |-> FALSE, cb |-> [cb EXCEPT !.lastFailureTime = t] ]
  ELSE [ admitted |-> TRUE, cb |-> cb ]

\* Variant: the elapsed time is taken with the wrong sign, so that the
\* cooldown never counts as elapsed.
ExecuteEnter_cooldownNeverOver(cb, t) ==
  IF cb.state = "OPEN"
  THEN IF cb.lastFailureTime - t > openDuration
       THEN [ admitted |-> TRUE,
              cb |-> [cb EXCEPT !.state = "HALF_OPEN", !.trialCount = 0] ]
       ELSE [ admitted |-> FALSE, cb |-> cb ]
  ELSE [ admitted |-> TRUE, cb |-> cb ]

\* Variant: the cooldown counts as elapsed one instant early (>= for >).
ExecuteEnter_earlyTrial(cb, t) ==
  IF cb.state = "OPEN"
  THEN IF t - cb.lastFailureTime >= openDuration
       THEN [ admitted |-> TRUE,
              cb |-> [cb EXCEPT !.state = "HALF_OPEN", !.trialCount = 0] ]
       ELSE [ admitted |-> FALSE, cb |-> cb ]
  ELSE [ admitted |-> TRUE, cb |-> cb ]

\* Variant: after the cooldown the breaker closes at once, without trials.
ExecuteEnter_skipHalfOpen(cb, t) ==
  IF cb.state = "OPEN"
  THEN IF t - cb.lastFailureTime > openDuration
       THEN [ admitted |-> TRUE,
              cb |-> [cb EXCEPT !.state = "CLOSED", !.trialCount = 0] ]
       ELSE [ admitted |-> FALSE, cb |-> cb ]
  ELSE [ admitted |-> TRUE, cb |-> cb ]

\* The head of execute: the OPEN check.  admitted = FALSE is the throw.
ExecuteEnter(cb, t) ==
  IF cb.state = "OPEN"
  THEN IF t - cb.lastFailureTime > openDuration
       THEN [ admitted |-> TRUE,
              cb |-> [cb EXCEPT !.state = "HALF_OPEN", !.trialCount = 0] ]
       ELSE [ admitted |-> FALSE, cb |-> cb ]
  ELSE [ admitted |-> TRUE, cb |-> cb ]

\* Variant: a success counts as a trial in every state but CLOSED.
onSuccess_trialUnlessClosed(cb) ==
  LET c1 == [cb EXCEPT !.successCount = @ + 1,
                       !.requestHistory = PushHistory(@, TRUE)]
  IN IF c1.state # "CLOSED"
     THEN LET c2 == [c1 EXCEPT !.trialCount = @ + 1]
          IN IF c2.trialCount >= halfOpenTrials
             THEN [c2 EXCEPT !.state = "CLOSED", !.failureCount = 0]
             ELSE c2
     ELSE [c1 EXCEPT !.failureCount = 0]

\* Variant: closing the breaker also zeroes trialCount.
onSuccess_resetTrials(cb) ==
  LET c1 == [cb EXCEPT !.successCount = @ + 1,
                       !.requestHistory = PushHistory(@, TRUE)]
  IN IF c1.state = "HALF_OPEN"
     THEN LET c2 == [c1 EXCEPT !.trialCount = @ + 1]
          IN IF c2.trialCount >= halfOpenTrials
             THEN [c2 EXCEPT !.state = "CLOSED", !.failureCount = 0,
                             !.trialCount = 0]
             ELSE c2
     ELSE IF c1.state = "CLOSED"
          THEN [c1 EXCEPT !.failureCount = 0]
          ELSE c1

\* Variant: the breaker closes one trial late (> for >=).
onSuccess_closeLate(cb) ==
  LET c1 == [cb EXCEPT !.successCount = @ + 1,
                       !.requestHistory = PushHistory(@, TRUE)]
  IN IF c1.state = "HALF_OPEN"
     THEN LET c2 == [c1 EXCEPT !.trialCount = @ + 1]
          IN IF c2.trialCount > halfOpenTrials
             THEN [c2 EXCEPT !.state = "CLOSED", !.failureCount = 0]
             ELSE c2
     ELSE IF c1.state = "CLOSED"
          THEN [c1 EXCEPT !.failureCount = 0]
          ELSE c1

onSuccess(cb) ==
  LET c1 == [cb EXCEPT !.successCount = @ + 1,
                       !.requestHistory = PushHistory(@, TRUE)]
  IN IF c1.state = "HALF_OPEN"
     THEN LET c2 == [c1 EXCEPT !.trialCount = @ + 1]
          IN IF c2.trialCount >= halfOpenTrials
             THEN [c2 EXCEPT !.state = "CLOSED", !.failureCount = 0]
             ELSE c2
     ELSE IF c1.state = "CLOSED"
          THEN [c1 EXCEPT !.failureCount = 0]
          ELSE c1

\* Variant: the failure rate trips the breaker whatever the length of the
\* history (the onFailure printed in the implementation guide).
onFailure_rateAnyLength(cb, t) ==
  LET c1 == [cb EXCEPT !.failureCount = @ + 1,
                       !.lastFailureTime = t,
                       !.requestHistory = PushHistory(@, FALSE)]
  IN IF c1.state = "HALF_OPEN"
     THEN [c1 EXCEPT !.state = "OPEN", !.trialCount = 0]
     ELSE IF c1.state = "CLOSED"
          THEN IF c1.failureCount >= failureThreshold
                  \/ RateAtLeastThreshold(c1.requestHistory)
               THEN [c1 EXCEPT !.state = "OPEN"]
               ELSE c1
          ELSE c1

\* Variant: failureCount is incremented in CLOSED only.
onFailure_countInClosedOnly(cb, t) ==
  LET c1 == [cb EXCEPT !.lastFailureTime = t,
                       !.requestHistory = PushHistory(@, FALSE)]
  IN IF c1.state = "HALF_OPEN"
     THEN [c1 EXCEPT !.state = "OPEN", !.trialCount = 0]
     ELSE IF c1.state = "CLOSED"
          THEN LET c2 == [c1 EXCEPT !.failureCount = @ + 1]
               IN IF c2.failureCount >= failureThreshold
                  THEN [c2 EXCEPT !.state = "OPEN"]
                  ELSE IF RateAtLeastThreshold(c2.requestHistory)
                          /\ Len(c2.requestHistory) >= failureRateWindow
                       THEN [c2 EXCEPT !.state = "OPEN"]
                       ELSE c2
          ELSE c1

\* Variant: the breaker opens one failure late (> for >=).
onFailure_strictThreshold(cb, t) ==
  LET c1 == [cb EXCEPT !.failureCount = @ + 1,
                       !.lastFailureTime = t,
                       !.requestHistory = PushHistory(@, FALSE)]
  IN IF c1.state = "HALF_OPEN"
     THEN [c1 EXCEPT !.state = "OPEN", !.trialCount = 0]
     ELSE IF c1.state = "CLOSED"
          THEN IF c1.failureCount > failureThreshold
               THEN [c1 EXCEPT !.state = "OPEN"]
               ELSE IF RateAtLeastThreshold(c1.requestHistory)
                       /\ Len(c1.requestHistory) >= failureRateWindow
                    THEN [c1 EXCEPT !.state = "OPEN"]
                    ELSE c1
          ELSE c1

\* Variant: a failed trial does not reopen the breaker.
onFailure_ignoreHalfOpen(cb, t) ==
  LET c1 == [cb EXCEPT !.failureCount = @ + 1,
                       !.lastFailureTime = t,
                       !.requestHistory = PushHistory(@, FALSE)]
  IN IF c1.state = "CLOSED"
     THEN IF c1.failureCount >= failureThreshold
          THEN [c1 EXCEPT !.state = "OPEN"]
          ELSE IF RateAtLeastThreshold(c1.requestHistory)
                  /\ Len(c1.requestHistory) >= failureRateWindow
               THEN [c1 EXCEPT !.state = "OPEN"]
               ELSE c1
     ELSE c1

onFailure(cb, t) ==
  LET c1 == [cb EXCEPT !.failureCount = @ + 1,
                       !.lastFailureTime = t,
                       !.requestHistory = PushHistory(@, FALSE)]
  IN IF c1.state = "HALF_OPEN"
     THEN [c1 EXCEPT !.state = "OPEN", !.trialCount = 0]
     ELSE IF c1.state = "CLOSED"
          THEN IF c1.failureCount >= failureThreshold
               THEN [c1 EXCEPT !.state = "OPEN"]
               ELSE IF RateAtLeastThreshold(c1.requestHistory)
                       /\ Len(c1.requestHistory) >= failureRateWindow
                    THEN [c1 EXCEPT !.state = "OPEN"]
                    ELSE c1
          ELSE c1

------------------------------------------------------------------------------
(* Mocked downstream calls *)

UserData == [userId |-> "123", preferences |-> <<"Action", "Sci-Fi">>]
MoviesData == << [movieId |-> 101, title |-> "Inception", genre |-> "Sci-Fi"],
                 [movieId |-> 102, title |-> "The Dark Knight", genre |-> "Action"] >>
TrendingData == << [movieId |-> 99, title |-> "Trending Movie 1"] >>

MockData(dataType) ==
  IF dataType = "user" THEN UserData
  ELSE IF dataType = "movies" THEN MoviesData
  ELSE TrendingData

\* The promise returned by mockServiceCall: settles after `delay` ms
\* (0: already settled when returned), fulfilled with value or rejected.
mockServiceCall(behavior, dataType) ==
  IF behavior = "slow"
  THEN [ok |-> TRUE, delay |-> slowDelay, value |-> MockData(dataType)]
  ELSE IF behavior = "fail"
       THEN [ok |-> FALSE, delay |-> 0, error |-> ServiceError]
       ELSE [ok |-> TRUE, delay |-> 0, value |-> MockData(dataType)]

\* Promise.race([fn(), timer(timeout)]): what settles the race, and when.
\* fn() is called before the timer is armed, so on equal delays it wins.
Race(p) ==
  IF p.delay <= timeout
  THEN p
  ELSE [ok |-> FALSE, delay |-> timeout, error |-> TimeoutError]


\* The wrapped call, invoked at time t, if the timer settles the race
\* before it: the call is not cancelled and settles at time `at`, when
\* nothing awaits it any more.
Loser(cb, call, p, t) ==
  IF call.delay > p.delay
  THEN SetToBag({[breaker |-> cb.name, at |-> t + call.delay, ok |-> call.ok]})
  ELSE EmptyBag

\* Variant: the catch block of execute records the failure and does not
\* rethrow, so that execute returns undefined.
ExecuteStart_swallowFailure(cb, behavior, dataType, t) ==
  LET e == ExecuteEnter(cb, t)
  IN IF ~e.admitted
     THEN [ cb |-> e.cb, invoked |-> FALSE, settled |-> TRUE, due |-> 0,
            result |-> [ok |-> FALSE, delay |-> 0, error |-> OpenError(cb)],
            late |-> EmptyBag ]
     ELSE LET call == mockServiceCall(behavior, dataType)
              p == Race(call)
          IN IF p.delay = 0
             THEN [ cb |-> IF p.ok THEN onSuccess(e.cb) ELSE onFailure(e.cb, t),
                    invoked |-> TRUE, settled |-> TRUE, due |-> 0,
                    result |-> IF p.ok THEN p
                               ELSE [ok |-> TRUE, delay |-> 0, value |-> "undefined"],
                    late |-> EmptyBag ]
             ELSE [ cb |-> e.cb, invoked |-> TRUE, settled |-> FALSE,
                    due |-> t + p.delay, result |-> p,
                    late |-> Loser(cb, call, p, t) ]

\* execute(fn) up to the first point where it either has settled or awaits
\* a later macrotask.  invoked: fn() was called.  settled: the promise
\* returned by execute is settled within the current step, with `result`;
\* otherwise the race settles at time `due` with `result`.
ExecuteStart(cb, behavior, dataType, t) ==
  LET e == ExecuteEnter(cb, t)
  IN IF ~e.admitted
     THEN [ cb |-> e.cb, invoked |-> FALSE, settled |-> TRUE, due |-> 0,
            result |-> [ok |-> FALSE, delay |-> 0, error |-> OpenError(cb)],
            late |-> EmptyBag ]
     ELSE LET call == mockServiceCall(behavior, dataType)
              p == Race(call)
          IN IF p.delay = 0
             THEN [ cb |-> IF p.ok THEN onSuccess(e.cb) ELSE onFailure(e.cb, t),
                    invoked |-> TRUE, settled |-> TRUE, due |-> 0,
                    result |-> p, late |-> EmptyBag ]
             ELSE [ cb |-> e.cb, invoked |-> TRUE, settled |-> FALSE,
                    due |-> t + p.delay, result |-> p,
                    late |-> Loser(cb, call, p, t) ]

\* The rest of execute once the awaited race settles at time t.
ExecuteSettle(cb, p, t) ==
  IF p.ok THEN onSuccess(cb) ELSE onFailure(cb, t)

getMetrics(cb) ==
  [ state |-> cb.state,
    successfulCalls |-> cb.successCount,
    failedCalls |-> cb.failureCount ]

------------------------------------------------------------------------------
(* GET /recommendations/:userId *)

Undefined == "undefined"
NoPending == [ok |-> TRUE, delay |-> 0, value |-> Undefined]
NoError == ""

\* The handler's locals when it is entered.
NewReq(userId) ==
  [ pc |-> "start", userId |-> userId,
    userPreferences |-> Undefined, userProfileFailed |-> FALSE,
    recommendations |-> Undefined, contentFailed |-> FALSE,
    profileError |-> NoError, contentError |-> NoError,
    due |-> 0, pending |-> NoPending ]

DefaultPreferences(userId) ==
  [userId |-> userId, preferences |-> <<"Comedy", "Family">>]

\* try { userPreferences = await ...execute(...) } catch (e) { ... }
AfterProfile(req, result) ==
  IF result.ok
  THEN [req EXCEPT !.userPreferences = result.value]
  ELSE [req EXCEPT !.userProfileFailed = TRUE,
                   !.userPreferences = DefaultPreferences(req.userId),
                   !.profileError = result.error]

\* try { recommendations = await ...execute(...) } catch (e) { ... }
AfterContent(req, result) ==
  IF result.ok
  THEN [req EXCEPT !.recommendations = result.value]
  ELSE [req EXCEPT !.contentFailed = TRUE,
                   !.recommendations = <<>>,
                   !.contentError = result.error]

BothAnnotation == "user-profile-service, content-service"
ProfileAnnotation == "user-profile-service"
ContentAnnotation == "content-service"

\* Variant: the trending source fails when both circuits are open.
Compose_trendingDown(bks, req) ==
  IF bks["userProfile"].state = "OPEN" /\ bks["content"].state = "OPEN"
  THEN [ status |-> 500, body |-> [error |-> ServiceError] ]
  ELSE IF bks["userProfile"].state = "OPEN"
  THEN [ status |-> 200,
         body |-> [ userPreferences |-> DefaultPreferences(req.userId),
                    recommendations |-> req.recommendations,
                    fallback_triggered_for |-> ProfileAnnotation ] ]
  ELSE IF bks["content"].state = "OPEN"
  THEN [ status |-> 200,
         body |-> [ userPreferences |-> req.userPreferences,
                    trending |-> TrendingData,
                    message |-> "trending fallback",
                    fallback_triggered_for |-> ContentAnnotation ] ]
  ELSE [ status |-> 200,
         body |-> [ userPreferences |-> req.userPreferences,
                    recommendations |-> req.recommendations ] ]

\* Variant: the profile-only branch is tested before the both-open branch.
Compose_profileFirst(bks, req) ==
  IF bks["userProfile"].state = "OPEN"
  THEN [ status |-> 200,
         body |-> [ userPreferences |-> DefaultPreferences(req.userId),
                    recommendations |-> req.recommendations,
                    fallback_triggered_for |-> ProfileAnnotation ] ]
  ELSE IF bks["content"].state = "OPEN"
  THEN [ status |-> 200,
         body |-> [ userPreferences |-> req.userPreferences,
                    trending |-> TrendingData,
                    message |-> "trending fallback",
                    fallback_triggered_for |-> ContentAnnotation ] ]
  ELSE [ status |-> 200,
         body |-> [ userPreferences |-> req.userPreferences,
                    recommendations |-> req.recommendations ] ]

\* Variant: the branch is chosen by what this request's own calls did.
Compose_byOwnFailure(bks, req) ==
  IF req.userProfileFailed /\ req.contentFailed
  THEN [ status |-> 200,
         body |-> [ message |-> "degraded",
                    trending |-> TrendingData,
                    fallback_triggered_for |-> BothAnnotation ] ]
  ELSE IF req.userProfileFailed
  THEN [ status |-> 200,
         body |-> [ userPreferences |-> DefaultPreferences(req.userId),
                    recommendations |-> req.recommendations,
                    fallback_triggered_for |-> ProfileAnnotation ] ]
  ELSE IF req.contentFailed
  THEN [ status |-> 200,
         body |-> [ userPreferences |-> req.userPreferences,
                    trending |-> TrendingData,
                    message |-> "trending fallback",
                    fallback_triggered_for |-> ContentAnnotation ] ]
  ELSE [ status |-> 200,
         body |-> [ userPreferences |-> req.userPreferences,
                    recommendations |-> req.recommendations ] ]

\* The composition step, evaluated once both execute calls have settled.
Compose(bks, req) ==
  IF bks["userProfile"].state = "OPEN" /\ bks["content"].state = "OPEN"
  THEN LET trending == mockServiceCall("normal", "trending")
       IN IF trending.ok
          THEN [ status |-> 200,
                 body |-> [ message |-> "degraded",
                            trending |-> trending.value,
                            fallback_triggered_for |-> BothAnnotation ] ]
          ELSE [ status |-> 500, body |-> [error |-> trending.error] ]
  ELSE IF bks["userProfile"].state = "OPEN"
  THEN [ status |-> 200,
         body |-> [ userPreferences |-> DefaultPreferences(req.userId),
                    recommendations |-> req.recommendations,
                    fallback_triggered_for |-> ProfileAnnotation ] ]
  ELSE IF bks["content"].state = "OPEN"
  THEN LET trending == mockServiceCall("normal", "trending")
       IN IF trending.ok
          THEN [ status |-> 200,
                 body |-> [ userPreferences |-> req.userPreferences,
                            trending |-> trending.value,
                            message |-> "trending fallback",
                            fallback_triggered_for |-> ContentAnnotation ] ]
          ELSE [ status |-> 500, body |-> [error |-> trending.error] ]
  ELSE [ status |-> 200,
         body |-> [ userPreferences |-> req.userPreferences,
                    recommendations |-> req.recommendations ] ]

\* What is remembered of the request that was answered most recently.
Answered(req, resp) ==
  [ userId |-> req.userId, status |-> resp.status, body |-> resp.body,
    userProfileFailed |-> req.userProfileFailed,
    contentFailed |-> req.contentFailed,
    profileError |-> req.profileError,
    contentError |-> req.contentError,
    userPreferences |-> req.userPreferences,
    recommendations |-> req.recommendations ]

NoAnswer ==
  [ userId |-> Undefined, status |-> 0, body |-> [none |-> TRUE],
    userProfileFailed |-> FALSE, contentFailed |-> FALSE,
    profileError |-> NoError, contentError |-> NoError,
    userPreferences |-> Undefined, recommendations |-> Undefined ]

\* The handler from the content execute on, for a request whose profile
\* step is over.  Yields the new breakers and call counters, the handler
\* if it is suspended again (a bag of at most one), and the answer.
FromContent(bks, inv, req, ss, t, prev) ==
  LET ex == ExecuteStart(bks["content"], ss["content"], "movies", t)
      bks1 == [bks EXCEPT !["content"] = ex.cb]
      inv1 == IF ex.invoked THEN [inv EXCEPT !["content"] = @ + 1] ELSE inv
  IN IF ex.settled
     THEN LET r == AfterContent(req, ex.result)
          IN [ bks |-> bks1, inv |-> inv1, susp |-> EmptyBag,
               last |-> Answered(r, Compose(bks1, r)), late |-> ex.late ]
     ELSE [ bks |-> bks1, inv |-> inv1,
            susp |-> SetToBag({[req EXCEPT !.pc = "awaitContent",
                                           !.due = ex.due,
                                           !.pending = ex.result]}),
            last |-> prev, late |-> ex.late ]

\* The handler from its first line.
FromStart(bks, inv, userId, ss, t, prev) ==
  LET req == NewReq(userId)
      ex == ExecuteStart(bks["userProfile"], ss["user-profile"], "user", t)
      bks1 == [bks EXCEPT !["userProfile"] = ex.cb]
      inv1 == IF ex.invoked THEN [inv EXCEPT !["userProfile"] = @ + 1] ELSE inv
  IN IF ex.settled
     THEN FromContent(bks1, inv1, AfterProfile(req, ex.result), ss, t, prev)
     ELSE [ bks |-> bks1, inv |-> inv1,
            susp |-> SetToBag({[req EXCEPT !.pc = "awaitProfile",
                                           !.due = ex.due,
                                           !.pending = ex.result]}),
            last |-> prev, late |-> ex.late ]

\* A POST /simulate request with the status of its answer.
SimulateAnswer(service, behavior, status) ==
  [service |-> service, behavior |-> behavior, status |-> status]

NotSimulated == SimulateAnswer(Undefined, Undefined, 0)

------------------------------------------------------------------------------
(* The state machine *)

Init ==
  /\ breakers = [b \in BreakerNames |-> NewBreaker(b)]
  /\ serviceStates = [s \in Services |-> "normal"]
  /\ now = 0
  /\ reqs = EmptyBag
  /\ started = 0
  /\ invocations = [b \in BreakerNames |-> 0]
  /\ everOpen = {}
  /\ last = NoAnswer
  /\ outcomes = [b \in BreakerNames |-> <<>>]
  /\ simulated = NotSimulated
  /\ running = EmptyBag

AwaitPc(b) == IF b = "userProfile" THEN "awaitProfile" ELSE "awaitContent"

ServiceOf(b) == IF b = "userProfile" THEN "user-profile" ELSE "content"

\* The outcome of the wrapped call of breaker b that completed for its
\* invoker during the step in which the handler `resumed` ran up to c, if
\* one did: the awaited race that settled (TRUE for a result, FALSE for a
\* rejection), or the call that was invoked and settled without delay.
Completed(b, resumed, c) ==
  LET settled == {r \in BagToSet(resumed) : r.pc = AwaitPc(b)}
  IN IF settled # {}
     THEN << (CHOOSE r \in settled : TRUE).pending.ok >>
     ELSE IF /\ c.inv[b] = invocations[b] + 1
             /\ \A r \in BagToSet(c.susp) : r.pc # AwaitPc(b)
     THEN << serviceStates[ServiceOf(b)] # "fail" >>
     ELSE << >>

\* A wrapped call that lost its race was to settle before now: the event
\* loop runs what became due earlier first.
LateDue == \E c \in BagToSet(running) : c.at <= now

\* The handler `resumed` (a bag of at most one) has run up to outcome c.
Apply(resumed, c) ==
  /\ breakers' = c.bks
  /\ invocations' = c.inv
  /\ reqs' = (reqs (-) resumed) (+) c.susp
  /\ everOpen' = everOpen \cup {b \in BreakerNames : c.bks[b].state = "OPEN"}
  /\ last' = c.last
  /\ outcomes' = [b \in BreakerNames |-> outcomes[b] \o Completed(b, resumed, c)]
  /\ running' = running (+) c.late

\* A GET /recommendations/:userId request arrives.
GetRecommendations(userId) ==
  /\ ~LateDue
  /\ BagCardinality(reqs) < MaxPending
  /\ started' = started + 1
  /\ Apply(EmptyBag, FromStart(breakers, invocations, userId, serviceStates, now, last))
  /\ UNCHANGED <<serviceStates, now, simulated>>

\* The race awaited by the profile execute of handler req settles.
ProfileSettles(req) ==
  /\ ~LateDue
  /\ req.pc = "awaitProfile"
  /\ now >= req.due
  /\ LET cb == ExecuteSettle(breakers["userProfile"], req.pending, now)
         bks1 == [breakers EXCEPT !["userProfile"] = cb]
         r == [AfterProfile(req, req.pending) EXCEPT !.due = 0, !.pending = NoPending]
     IN Apply(SetToBag({req}),
              FromContent(bks1, invocations, r, serviceStates, now, last))
  /\ UNCHANGED <<serviceStates, now, started, simulated>>

\* The race awaited by the content execute of handler req settles.
ContentSettles(req) ==
  /\ ~LateDue
  /\ req.pc = "awaitContent"
  /\ now >= req.due
  /\ LET cb == ExecuteSettle(breakers["content"], req.pending, now)
         bks1 == [breakers EXCEPT !["content"] = cb]
         r == AfterContent(req, req.pending)
     IN Apply(SetToBag({req}),
              [ bks |-> bks1, inv |-> invocations, susp |-> EmptyBag,
                last |-> Answered(r, Compose(bks1, r)), late |-> EmptyBag ])
  /\ UNCHANGED <<serviceStates, now, started, simulated>>

\* Variant: only the service parameter is validated.
Simulate_anyBehavior(service, behavior) ==
  /\ ~LateDue
  /\ IF service \in {"user-profile", "content"}
     THEN /\ serviceStates' = [serviceStates EXCEPT ![service] = behavior]
          /\ simulated' = SimulateAnswer(service, behavior, 200)
     ELSE /\ UNCHANGED serviceStates
          /\ simulated' = SimulateAnswer(service, behavior, 400)
  /\ UNCHANGED <<breakers, now, reqs, started, invocations, everOpen, last, outcomes,
               running>>

\* POST /simulate/:service/:behavior
Simulate(service, behavior) ==
  /\ ~LateDue
  /\ IF service \in {"user-profile", "content"}
        /\ behavior \in {"normal", "slow", "fail"}
     THEN /\ serviceStates' = [serviceStates EXCEPT ![service] = behavior]
          /\ simulated' = SimulateAnswer(service, behavior, 200)
     ELSE /\ UNCHANGED serviceStates
          /\ simulated' = SimulateAnswer(service, behavior, 400)
  /\ UNCHANGED <<breakers, now, reqs, started, invocations, everOpen, last, outcomes,
               running>>

\* Variant: the settlement of a call that lost its race is recorded.
LateCompletion_recorded(call) ==
  /\ now >= call.at
  /\ running' = running (-) SetToBag({call})
  /\ breakers' = [breakers EXCEPT ![call.breaker] =
                    IF call.ok THEN onSuccess(@) ELSE onFailure(@, now)]
  /\ UNCHANGED <<serviceStates, now, reqs, started, invocations, everOpen, last,
                 outcomes, simulated>>

\* A wrapped call that lost its race against the timer settles.  The
\* promise of the race is settled already, so the settlement has no
\* listener left: execute and the handler went on when the timer fired.
LateCompletion(call) ==
  /\ now >= call.at
  /\ running' = running (-) SetToBag({call})
  /\ UNCHANGED <<breakers, serviceStates, now, reqs, started, invocations, everOpen,
                 last, outcomes, simulated>>

Pending == BagToSet(reqs)

\* Time passes.  The clock is observed by the pending timers and by the
\* cooldown test of an OPEN breaker, and advances while one of them waits
\* for it; it stops at the instant the next timer is due, and that timer
\* fires before the clock moves on.
Tick(d) ==
  LET dues == {r.due : r \in Pending}
      t == IF \E x \in dues : x < now + d
           THEN CHOOSE x \in dues : \A y \in dues : x <= y
           ELSE now + d
  IN /\ now + d <= MaxNow
     /\ \/ Pending # {}
        \/ \E b \in BreakerNames : breakers[b].state = "OPEN"
     /\ \A r \in Pending : now < r.due
     /\ ~LateDue
     /\ now' = t
     /\ UNCHANGED <<breakers, serviceStates, reqs, started, invocations, everOpen, last,
                    outcomes, simulated, running>>

\* The clock moves by the length of a timeout or of a cooldown.
Steps == {timeout, openDuration}

BreakerOf(service) == IF service = "user-profile" THEN "userProfile" ELSE "content"

\* A dependency that is served normally and whose breaker shows no failure.
Undisturbed(service) ==
  /\ serviceStates[service] = "normal"
  /\ breakers[BreakerOf(service)].state = "CLOSED"
  /\ CountFailures(breakers[BreakerOf(service)].requestHistory) = 0

\* Faults are injected into one dependency while the other is undisturbed.
OneTarget(service, behavior) ==
  (service \in Services /\ behavior \in Behaviors \ {"normal"})
     => \A o \in Services \ {service} : Undisturbed(o)

\* The recognised parameters of POST /simulate, and two unrecognised pairs.
SimulateInputs ==
  (Services \X Behaviors) \cup {<<"bogus", "normal">>, <<"user-profile", "bogus">>}

\* The request asks for a behaviour other than the one in force.
Changes(service, behavior) == serviceStates[service] # behavior

\* One dependency disturbed at a time; slow calls, concurrent requests.
Next ==
  \/ \E u \in UserIds : started < MaxRequests /\ GetRecommendations(u)
  \/ \E req \in Pending : ProfileSettles(req)
  \/ \E req \in Pending : ContentSettles(req)
  \/ \E call \in BagToSet(running) : LateCompletion(call)
  \/ \E s \in Services, b \in Behaviors :
       Changes(s, b) /\ OneTarget(s, b) /\ Simulate(s, b)
  \/ \E d \in Steps : Tick(d)

Spec == Init /\ [][Next]_vars

\* One dependency disturbed at a time, calls fail at once or succeed:
\* long sequences of calls on one breaker.
NextSeq ==
  \/ \E u \in UserIds : started < MaxSeqRequests /\ GetRecommendations(u)
  \/ \E s \in Services, b \in {"normal", "fail"} :
       Changes(s, b) /\ OneTarget(s, b) /\ Simulate(s, b)
  \/ \E d \in Steps : Tick(d)

SpecSeq == Init /\ [][NextSeq]_vars

\* Both dependencies disturbed independently, calls fail at once or succeed.
NextBoth ==
  \/ \E u \in UserIds : started < MaxBothRequests /\ GetRecommendations(u)
  \/ \E s \in Services, b \in {"normal", "fail"} : Changes(s, b) /\ Simulate(s, b)
  \/ \E d \in Steps : Tick(d)

SpecBoth == Init /\ [][NextBoth]_vars

\* Every kind of POST /simulate request, recognised or not, changing the
\* behaviour in force or not, between a few requests.
NextSim ==
  \/ \E u \in UserIds : started < MaxSimRequests /\ GetRecommendations(u)
  \/ \E req \in Pending : ProfileSettles(req)
  \/ \E req \in Pending : ContentSettles(req)
  \/ \E call \in BagToSet(running) : LateCompletion(call)
  \/ \E in \in SimulateInputs : Simulate(in[1], in[2])
  \/ \E d \in Steps : Tick(d)

SpecSim == Init /\ [][NextSim]_vars

\* One dependency disturbed at a time, calls fail at once or succeed, so
\* that every call completes in the step that invokes it.
NextLive ==
  \/ \E u \in UserIds : started < MaxLiveRequests /\ GetRecommendations(u)
  \/ \E s \in Services, b \in {"normal", "fail"} :
       Changes(s, b) /\ OneTarget(s, b) /\ Simulate(s, b)
  \/ \E d \in Steps : Tick(d)

\* The handler of GET /recommendations can be entered: the guard of
\* GetRecommendations, within the requests of a run.
CanServe ==
  /\ ~LateDue
  /\ BagCardinality(reqs) < MaxPending
  /\ started < MaxLiveRequests

\* Requests keep arriving and the clock keeps advancing: a request that can
\* be served is served, and time that can pass passes.  The steps that
\* count a request are the steps of GetRecommendations, which is defined
\* for every state and user.  Nothing is assumed of POST /simulate.
Fairness ==
  /\ WF_started(CanServe /\ started' = started + 1)
  /\ WF_vars(\E d \in Steps : Tick(d))

SpecLive == Init /\ [][NextLive]_vars /\ Fairness

------------------------------------------------------------------------------
(* What a step did, read off the variables *)

Arrived == started' = started + 1

AnsweredCount == started - BagCardinality(reqs)
Responded == AnsweredCount' = AnsweredCount + 1

\* The number of handlers suspended in the execute of breaker b.
Awaiting(b) ==
  BagCardinality([r \in {x \in Pending : x.pc = AwaitPc(b)} |-> reqs[r]])

\* The handlers suspended in this step.
Suspended == {r \in BagToSet(reqs') : CopiesIn(r, reqs') > CopiesIn(r, reqs)}

\* execute was called on breaker b in this step.
ExecutesOn(b) ==
  IF b = "userProfile"
  THEN Arrived
  ELSE \/ Arrived /\ Awaiting("userProfile")' = Awaiting("userProfile")
       \/ Awaiting("userProfile")' = Awaiting("userProfile") - 1

\* The call admitted on b in this step is still in flight after it.
InFlightAfter(b) == Awaiting(b)' = Awaiting(b) + 1

\* The error the handler caught from the execute called on b in this step
\* (NoError if it has caught none).
ProfileErrorAfter ==
  IF Suspended # {}
  THEN (CHOOSE r \in Suspended : TRUE).profileError
  ELSE last'.profileError

ContentErrorAfter ==
  IF Responded THEN last'.contentError ELSE NoError

ErrorAfter(b) == IF b = "userProfile" THEN ProfileErrorAfter ELSE ContentErrorAfter

\* The execute called on b in this step, or one that was awaited, is over.
ExecuteOver(b) ==
  \/ ExecutesOn(b) /\ ~InFlightAfter(b)
  \/ Awaiting(b)' = Awaiting(b) - 1

\* What the handler holds once its execute on b is over: whether it caught
\* an error, and the value it goes on with.
CaughtAfter(b) ==
  IF b = "content" THEN last'.contentFailed
  ELSE IF Suspended # {} THEN (CHOOSE r \in Suspended : TRUE).userProfileFailed
  ELSE last'.userProfileFailed

ValueAfter(b) ==
  IF b = "content" THEN last'.recommendations
  ELSE IF Suspended # {} THEN (CHOOSE r \in Suspended : TRUE).userPreferences
  ELSE last'.userPreferences

\* A call of breaker b completed for its invoker in this step, as a failure
\* or as a success.
FailureCompleted(b) ==
  /\ Len(outcomes'[b]) = Len(outcomes[b]) + 1
  /\ ~outcomes'[b][Len(outcomes'[b])]

SuccessCompleted(b) ==
  /\ Len(outcomes'[b]) = Len(outcomes[b]) + 1
  /\ outcomes'[b][Len(outcomes'[b])]

SuccessRecorded(b) == breakers'[b].successCount = breakers[b].successCount + 1
FailureRecorded(b) == breakers'[b].failureCount = breakers[b].failureCount + 1

\* The k most recent entries of the history are all failures.
LastFailed(h, k) ==
  Len(h) >= k /\ \A i \in (Len(h) - k + 1)..Len(h) : ~h[i]

Min(a, b) == IF a <= b THEN a ELSE b

\* The k most recent entries of the sequence s.
LastN(s, k) == SubSeq(s, Len(s) - k + 1, Len(s))

OpenWithinCooldown(b) ==
  /\ breakers[b].state = "OPEN"
  /\ now - breakers[b].lastFailureTime <= openDuration

CooldownOver(b) ==
  /\ breakers[b].state = "OPEN"
  /\ now - breakers[b].lastFailureTime > openDuration

------------------------------------------------------------------------------
(* Properties *)

\* C1: an execute called while the breaker is OPEN and at most openDuration
\* has passed since the last failure does not invoke the wrapped call (the
\* call counter stays put) and fails with the circuit-open error.
C1_OpenRejects ==
  [][ \A b \in BreakerNames :
        OpenWithinCooldown(b) =>
          /\ invocations'[b] = invocations[b]
          /\ ExecutesOn(b) => ErrorAfter(b) = OpenError(breakers[b]) ]_vars

\* A request was rejected by the profile breaker exactly openDuration after
\* the failure that opened it.
C1_Witness ==
  /\ breakers["userProfile"].state = "OPEN"
  /\ now - breakers["userProfile"].lastFailureTime = openDuration
  /\ last.profileError = OpenError(breakers["userProfile"])
  /\ started = invocations["userProfile"] + 1

\* C2: when a failure is recorded and it is the fifth in a row (no success
\* between them), the breaker is OPEN afterwards, whatever else the history
\* holds, and the metrics snapshot reports OPEN; a timeout is such a failure.
C2_FiveFailuresOpen ==
  [][ \A b \in BreakerNames :
        (FailureRecorded(b)
           /\ LastFailed(breakers'[b].requestHistory, failureThreshold))
        => /\ breakers'[b].state = "OPEN"
           /\ getMetrics(breakers'[b]).state = "OPEN" ]_vars

\* Five requests in a row timed out on the profile call; the history holds
\* five entries, fewer than the window, and the breaker is OPEN.
C2_Witness ==
  /\ breakers["userProfile"].requestHistory = <<FALSE, FALSE, FALSE, FALSE, FALSE>>
  /\ breakers["userProfile"].state = "OPEN"
  /\ breakers["userProfile"].lastFailureTime = failureThreshold * timeout
  /\ invocations["userProfile"] = failureThreshold
  /\ last.profileError = TimeoutError

\* C3: when the tenth call of a fresh breaker is recorded and at least five
\* of the ten failed, the breaker has been OPEN at some time up to then.
C3_TenCallsHalfFailedOpen ==
  [][ \A b \in BreakerNames :
        (Len(breakers[b].requestHistory) = failureRateWindow - 1
           /\ Len(breakers'[b].requestHistory) = failureRateWindow
           /\ CountFailures(breakers'[b].requestHistory) * 100
                >= failureRateThreshold * failureRateWindow)
        => b \in everOpen' ]_vars

\* C4: an execute called while the breaker is OPEN and more than
\* openDuration has passed since the last failure invokes the wrapped call
\* as the first trial: while the call is in flight the breaker is HALF_OPEN
\* with trialCount 0; if it succeeds the breaker is HALF_OPEN with one
\* trial completed; if it fails the breaker is OPEN again.
C4_CooldownOverAdmits ==
  [][ \A b \in BreakerNames :
        (CooldownOver(b) /\ ExecutesOn(b)) =>
          /\ invocations'[b] = invocations[b] + 1
          /\ ErrorAfter(b) # OpenError(breakers[b])
          /\ \/ /\ InFlightAfter(b)
                /\ breakers'[b] = [breakers[b] EXCEPT !.state = "HALF_OPEN",
                                                      !.trialCount = 0]
             \/ /\ ~InFlightAfter(b)
                /\ SuccessRecorded(b)
                /\ breakers'[b].state = "HALF_OPEN"
                /\ breakers'[b].trialCount = 1
             \/ /\ ~InFlightAfter(b)
                /\ FailureRecorded(b)
                /\ breakers'[b].state = "OPEN"
                /\ breakers'[b].trialCount = 0 ]_vars

\* The first trial after a cooldown is in flight: the breaker is HALF_OPEN
\* with no trial completed, before the wrapped call has settled.
C4_Witness ==
  \E b \in BreakerNames :
    /\ breakers[b].state = "HALF_OPEN"
    /\ breakers[b].trialCount = 0
    /\ now - breakers[b].lastFailureTime > openDuration
    /\ Awaiting(b) > 0

\* C5: in HALF_OPEN the first and the second success leave the breaker
\* HALF_OPEN, the third closes it with failureCount 0, and a failure opens
\* it whatever the number of trials completed.
C5_HalfOpenTrials ==
  [][ \A b \in BreakerNames :
        /\ (CooldownOver(b) /\ SuccessRecorded(b))
             => breakers'[b].state = "HALF_OPEN" /\ breakers'[b].trialCount = 1
        /\ (breakers[b].state = "HALF_OPEN" /\ SuccessRecorded(b))
             => IF breakers[b].trialCount = halfOpenTrials - 1
                THEN breakers'[b].state = "CLOSED" /\ breakers'[b].failureCount = 0
                ELSE /\ breakers'[b].state = "HALF_OPEN"
                     /\ breakers'[b].trialCount = breakers[b].trialCount + 1
        /\ (breakers[b].state = "HALF_OPEN" /\ FailureRecorded(b))
             => breakers'[b].state = "OPEN" ]_vars

\* A breaker that was OPEN has closed again after its third successful trial.
C5_Witness ==
  \E b \in BreakerNames :
    /\ b \in everOpen
    /\ breakers[b].state = "CLOSED"
    /\ breakers[b].failureCount = 0
    /\ breakers[b].trialCount = halfOpenTrials

C9_BothOpenDegraded ==
  [][ (Responded /\ \A b \in BreakerNames : breakers'[b].state = "OPEN") =>
        /\ last'.status = 200
        /\ "trending" \in DOMAIN last'.body
        /\ "fallback_triggered_for" \in DOMAIN last'.body
        /\ "userPreferences" \notin DOMAIN last'.body
        /\ "recommendations" \notin DOMAIN last'.body
        /\ last'.body.trending = TrendingData
        /\ last'.body.fallback_triggered_for = BothAnnotation ]_vars

\* The degraded answer was given while both breakers were OPEN.
C9_Witness ==
  /\ \A b \in BreakerNames : breakers[b].state = "OPEN"
  /\ last.status = 200
  /\ "fallback_triggered_for" \in DOMAIN last.body
  /\ last.body.fallback_triggered_for = BothAnnotation

\* C10: an answer without fallback annotation carries the result of this
\* request's profile call and of its catalog call, never a substituted
\* default: neither call of the request failed.
C10_UnannotatedIsReal ==
  (last.status = 200 /\ "fallback_triggered_for" \notin DOMAIN last.body) =>
    /\ ~last.userProfileFailed
    /\ ~last.contentFailed
    /\ last.body.userPreferences = UserData
    /\ last.body.recommendations = MoviesData

Transitions ==
  { <<"CLOSED", "OPEN">>, <<"OPEN", "HALF_OPEN">>,
    <<"HALF_OPEN", "CLOSED">>, <<"HALF_OPEN", "OPEN">> }

MayMove(from, to) == from = to \/ <<from, to>> \in Transitions

Closes(b) == breakers[b].state = "HALF_OPEN" /\ breakers'[b].state = "CLOSED"

\* C16 as stated: right after every move HALF_OPEN -> CLOSED both
\* failureCount and trialCount are 0.
C16_ClosingZeroesBoth ==
  [][ \A b \in BreakerNames :
        Closes(b) => /\ breakers'[b].failureCount = 0
                     /\ breakers'[b].trialCount = 0 ]_vars

\* C16 amended: right after every move HALF_OPEN -> CLOSED failureCount is
\* 0 and trialCount is halfOpenTrials, the number of the trial that closed
\* the breaker; trialCount keeps that value for as long as the breaker
\* stays CLOSED.
C16_ClosingZeroesFailuresOnly ==
  [][ \A b \in BreakerNames :
        /\ Closes(b) => /\ breakers'[b].failureCount = 0
                        /\ breakers'[b].trialCount = halfOpenTrials
        /\ (breakers[b].state = "CLOSED" /\ breakers'[b].state = "CLOSED")
             => breakers'[b].trialCount = breakers[b].trialCount ]_vars

\* The breaker has just closed: five failures, then three successful
\* trials after the cooldown, the last of which closed it.
C16_Witness ==
  \E b \in BreakerNames :
    /\ breakers[b].state = "CLOSED"
    /\ outcomes[b] = <<FALSE, FALSE, FALSE, FALSE, FALSE, TRUE, TRUE, TRUE>>
    /\ breakers[b].failureCount = 0
    /\ breakers[b].trialCount = halfOpenTrials

\* C19: an execute called while the breaker is OPEN and the cooldown has not
\* elapsed leaves every field of the breaker as it was (state, failureCount,
\* successCount, trialCount, requestHistory, lastFailureTime): the rejection
\* is not recorded as a failure and does not restart the cooldown.
C19_RejectionChangesNothing ==
  [][ \A b \in BreakerNames :
        (OpenWithinCooldown(b) /\ ExecutesOn(b)) =>
          /\ breakers'[b] = breakers[b]
          /\ outcomes'[b] = outcomes[b] ]_vars

\* The catalog breaker opened on five failures; a request was rejected by
\* it some time later, within the cooldown, and the breaker still shows
\* five failures, the instant of the fifth and five history entries.
C19_Witness ==
  /\ breakers["content"].state = "OPEN"
  /\ last.contentError = OpenError(breakers["content"])
  /\ breakers["content"].failureCount = failureThreshold
  /\ Len(breakers["content"].requestHistory) = failureThreshold
  /\ breakers["content"].lastFailureTime = 0
  /\ now = timeout
  /\ started = invocations["content"] + 1

\* C20 as stated: a failure that completes while the breaker is not CLOSED
\* leaves failureCount unchanged, and the failedCalls of the metrics never
\* exceeds failureThreshold.
C20_CountsClosedFailuresOnly ==
  [][ \A b \in BreakerNames :
        /\ (FailureCompleted(b) /\ breakers[b].state # "CLOSED")
             => breakers'[b].failureCount = breakers[b].failureCount
        /\ getMetrics(breakers'[b]).failedCalls <= failureThreshold ]_vars

\* C20 amended: every failure that completes, in whatever state of the
\* breaker, increments failureCount by one, and nothing else increments it;
\* failureCount returns to 0 only on a success in CLOSED or on the success
\* that closes the breaker.
C20_CountsEveryFailure ==
  [][ \A b \in BreakerNames :
        /\ FailureCompleted(b)
             => breakers'[b].failureCount = breakers[b].failureCount + 1
        /\ breakers'[b].failureCount > breakers[b].failureCount
             => FailureCompleted(b)
        /\ breakers'[b].failureCount < breakers[b].failureCount
             => /\ SuccessCompleted(b)
                /\ breakers'[b].state = "CLOSED"
                /\ breakers'[b].failureCount = 0 ]_vars

\* Two calls were in flight when the fifth failure opened the breaker; the
\* timeout of the second was recorded while it was OPEN, within the
\* cooldown, and the metrics report six failed calls.
C20_Witness ==
  \E b \in BreakerNames :
    /\ breakers[b].state = "OPEN"
    /\ now <= openDuration
    /\ Awaiting(b) = 0
    /\ invocations[b] = failureThreshold + 1
    /\ getMetrics(breakers[b]).failedCalls = failureThreshold + 1

\* What the wrapped call of breaker b returns, and what the handler puts in
\* its place when execute throws.
ResultOf(b) == IF b = "userProfile" THEN UserData ELSE MoviesData
FallbackOf(b) ==
  IF b = "userProfile"
  THEN DefaultPreferences(CHOOSE u \in UserIds : TRUE)
  ELSE <<>>

\* C12: an execute ends in one of two ways.  Either the wrapped call
\* succeeded before the timeout, and the invoker gets its result and no
\* error; or the invoker gets an error and no value: the circuit-open error
\* if the call was not invoked, the timeout error if the timer won, the
\* call's own error otherwise.
C12_ResultOrError ==
  [][ \A b \in BreakerNames :
        ExecuteOver(b) =>
          IF SuccessCompleted(b)
          THEN /\ ~CaughtAfter(b)
               /\ ErrorAfter(b) = NoError
               /\ ValueAfter(b) = ResultOf(b)
          ELSE /\ CaughtAfter(b)
               /\ ValueAfter(b) = FallbackOf(b)
               /\ ErrorAfter(b) =
                    IF Awaiting(b)' = Awaiting(b) - 1 THEN TimeoutError
                    ELSE IF invocations'[b] = invocations[b]
                    THEN OpenError(breakers[b])
                    ELSE ServiceError ]_vars

\* The profile execute of the request answered last failed with the timeout
\* error and its catalog execute returned the catalog's own result.
C12_Witness ==
  /\ last.status = 200
  /\ last.userProfileFailed
  /\ last.profileError = TimeoutError
  /\ last.userPreferences = FallbackOf("userProfile")
  /\ ~last.contentFailed
  /\ last.contentError = NoError
  /\ last.recommendations = MoviesData

\* A POST /simulate request was answered in this step.
SimulateStep == simulated' # simulated \/ serviceStates' # serviceStates

\* C13: a POST /simulate request whose service is not user-profile or
\* content, or whose behavior is not normal, slow or fail, is answered 400
\* and changes neither the injected behaviour of any dependency nor any
\* breaker; a request with both parameters recognised is answered 200, sets
\* the behaviour of the named service and leaves the other service's
\* behaviour and the breakers as they were.
C13_SimulateValidates ==
  [][ SimulateStep =>
        LET q == simulated'
        IN /\ breakers' = breakers
           /\ IF /\ q.service \in {"user-profile", "content"}
                 /\ q.behavior \in {"normal", "slow", "fail"}
              THEN /\ q.status = 200
                   /\ serviceStates'
                        = [serviceStates EXCEPT ![q.service] = q.behavior]
              ELSE /\ q.status = 400
                   /\ serviceStates' = serviceStates ]_vars

\* POST /simulate/user-profile/bogus was answered 400 while the profile
\* dependency was set to fail and its breaker had recorded failures.
C13_Witness ==
  /\ simulated = SimulateAnswer("user-profile", "bogus", 400)
  /\ serviceStates["user-profile"] = "fail"
  /\ breakers["userProfile"].failureCount > 0

\* The timer of an awaited race on b fired in this step.
TimerWins(b) == Awaiting(b)' = Awaiting(b) - 1

\* A wrapped call that had lost its race settled in this step.
LateStep == BagCardinality(running') < BagCardinality(running)

\* An execute on b whose wrapped call was invoked is over in this step.
InvokedOver(b) ==
  \/ TimerWins(b)
  \/ invocations'[b] = invocations[b] + 1 /\ ~InFlightAfter(b)

\* C17: each execute whose wrapped call was invoked records one outcome
\* when it is over, one history entry and either a success or a failure,
\* and nothing else records one; when the timer wins the race the outcome
\* is a failure and execute throws the timeout error; when the wrapped
\* call settles later no field of any breaker changes and no handler and
\* no answer is affected.
C17_OneOutcomePerCall ==
  /\ [] \A b \in BreakerNames :
          Len(breakers[b].requestHistory)
            = Min(invocations[b] - Awaiting(b), failureRateWindow)
  /\ [][ /\ \A b \in BreakerNames :
             LET cb == breakers[b]
                 cb1 == breakers'[b]
             IN /\ InvokedOver(b) =>
                     /\ SuccessRecorded(b) # FailureRecorded(b)
                     /\ cb1.requestHistory
                          = LastN(Append(cb.requestHistory, SuccessRecorded(b)),
                                  Min(Len(cb.requestHistory) + 1, failureRateWindow))
                /\ TimerWins(b) =>
                     /\ FailureRecorded(b)
                     /\ cb1.successCount = cb.successCount
                     /\ CaughtAfter(b)
                     /\ ErrorAfter(b) = TimeoutError
                /\ ~InvokedOver(b) =>
                     /\ cb1.requestHistory = cb.requestHistory
                     /\ cb1.successCount = cb.successCount
                     /\ cb1.failureCount = cb.failureCount
                     /\ cb1.lastFailureTime = cb.lastFailureTime
          /\ LateStep => /\ breakers' = breakers
                         /\ reqs' = reqs
                         /\ last' = last ]_vars

\* Two profile calls timed out one after the other; the first has settled
\* since, after its timeout, and the second is still running; the breaker
\* holds two failures and nothing else.
C17_Witness ==
  /\ invocations["userProfile"] = 2
  /\ Pending = {}
  /\ BagCardinality(running) = 1
  /\ breakers["userProfile"].requestHistory = <<FALSE, FALSE>>
  /\ breakers["userProfile"].failureCount = 2
  /\ breakers["userProfile"].successCount = 0
  /\ breakers["userProfile"].lastFailureTime = 2 * timeout

\* C22: a CLOSED breaker holds fewer than failureThreshold failures in
\* failureCount, whatever the interleaving of the requests.
C22_ClosedBelowThreshold ==
  \A b \in BreakerNames :
    breakers[b].state = "CLOSED" => breakers[b].failureCount < failureThreshold

\* A CLOSED breaker one failure short of opening, with a call in flight.
C22_Witness ==
  \E b \in BreakerNames :
    /\ breakers[b].state = "CLOSED"
    /\ breakers[b].failureCount = failureThreshold - 1
    /\ Awaiting(b) > 0

\* C23: while a breaker is OPEN the completion of a call admitted earlier
\* changes neither its state nor its trialCount, be it the timer of an
\* awaited race that fires or, for every breaker value reached, the
\* recording of a success or of a failure taken alone; a breaker leaves
\* OPEN only in a step in which execute is called on it after the cooldown.
C23_OpenIgnoresCompletions ==
  /\ [] \A b \in BreakerNames :
          breakers[b].state = "OPEN" =>
            /\ onSuccess(breakers[b]).state = "OPEN"
            /\ onSuccess(breakers[b]).trialCount = breakers[b].trialCount
            /\ onFailure(breakers[b], now).state = "OPEN"
            /\ onFailure(breakers[b], now).trialCount = breakers[b].trialCount
  /\ [][ \A b \in BreakerNames :
           breakers[b].state = "OPEN" =>
             /\ TimerWins(b) => /\ breakers'[b].state = "OPEN"
                                /\ breakers'[b].trialCount = breakers[b].trialCount
             /\ breakers'[b].state # "OPEN"
                  => ExecutesOn(b) /\ CooldownOver(b) ]_vars

\* The profile breaker opened on the fifth timeout while a sixth call was in
\* flight; the timeout of that call was recorded while the breaker was OPEN
\* and left it OPEN with no trial counted.
C23_Witness ==
  /\ breakers["userProfile"].state = "OPEN"
  /\ breakers["userProfile"].trialCount = 0
  /\ outcomes["userProfile"] = <<FALSE, FALSE, FALSE, FALSE, FALSE, FALSE>>
  /\ Awaiting("userProfile") = 0
  /\ now < openDuration

\* The run has room left for the cooldown of b to elapse.
TimeLeft(b) == breakers[b].lastFailureTime + openDuration + timeout <= MaxNow

\* The run has room left for halfOpenTrials more requests.
RequestsLeft == started + halfOpenTrials <= MaxLiveRequests

\* The dependency behind b answers normally.
Healthy(b) == serviceStates[ServiceOf(b)] = "normal"

\* C21: OPEN is not terminal.  While time advances, the cooldown of an OPEN
\* breaker comes to an end; once it has, and while requests keep arriving
\* and the dependency answers normally, the breaker becomes CLOSED, through
\* HALF_OPEN and halfOpenTrials successful trials, and in no other way;
\* and a CLOSED breaker stays CLOSED in every step in which no call of its
\* own fails.
C21_OpenRecovers ==
  /\ \A b \in BreakerNames :
       (breakers[b].state = "OPEN" /\ TimeLeft(b))
         ~> (CooldownOver(b) \/ breakers[b].state # "OPEN")
  /\ \A b \in BreakerNames :
       ((CooldownOver(b) \/ breakers[b].state = "HALF_OPEN")
          /\ Healthy(b) /\ RequestsLeft)
         ~> (breakers[b].state = "CLOSED" \/ ~Healthy(b))
  /\ [][ \A b \in BreakerNames :
           (breakers[b].state # "CLOSED" /\ breakers'[b].state = "CLOSED")
             => /\ breakers[b].state = "HALF_OPEN"
                /\ breakers[b].trialCount = halfOpenTrials - 1
                /\ now - breakers[b].lastFailureTime > openDuration
                /\ SuccessCompleted(b) ]_vars
  /\ [][ \A b \in BreakerNames :
           (breakers[b].state = "CLOSED" /\ ~FailureCompleted(b))
             => breakers'[b].state = "CLOSED" ]_vars

\* A breaker opened on five failures, closed after the cooldown and three
\* successful trials, and is still CLOSED after one more success.
C21_Witness ==
  \E b \in BreakerNames :
    /\ breakers[b].state = "CLOSED"
    /\ now > openDuration
    /\ outcomes[b] = <<FALSE, FALSE, FALSE, FALSE, FALSE, TRUE, TRUE, TRUE, TRUE>>

TypeOK ==
  /\ \A b \in BreakerNames :
       /\ breakers[b].state \in {"CLOSED", "OPEN", "HALF_OPEN"}
       /\ breakers[b].failureCount \in Nat
  /\ now \in 0..MaxNow

====
